---- MODULE Spec2Model ----
(***************************************************************************)
(* CodeMask backend (Revnorv1-backend): the mask/fetch server with its     *)
(* in-memory chunk store, the marker scanner and snippet classifier, and   *)
(* the browser SDK (loader) the server serves.                             *)
(*                                                                         *)
(* Text is a sequence of lexemes (strings).  A lexeme is atomic for the    *)
(* patterns of the code: a marker comment, a word of [A-Za-z0-9_$]+, one   *)
(* whitespace character, or one punctuation token.  indexOf, slice, trim   *)
(* and the regular expressions of analyze work on these sequences as the   *)
(* code works on characters.                                               *)
(***************************************************************************)
EXTENDS Integers, Sequences, FiniteSets, TLC

(***************************************************************************)
(* Text helpers (String.prototype.trim / includes / indexOf / slice)       *)
(***************************************************************************)
Whitespace == {" ", "\n"}

WordLexemes == {"function", "async", "const", "let", "return", "foo", "bar", "x", "y", "TABLE", "1"}

Range(s) == {s[i] : i \in DOMAIN s}

RECURSIVE TrimStart(_)
TrimStart(s) ==
  IF s # <<>> /\ Head(s) \in Whitespace THEN TrimStart(Tail(s)) ELSE s

RECURSIVE TrimEnd(_)
TrimEnd(s) ==
  IF s # <<>> /\ s[Len(s)] \in Whitespace THEN TrimEnd(SubSeq(s, 1, Len(s) - 1)) ELSE s

Trim(s) == TrimEnd(TrimStart(s))

Includes(s, x) == x \in Range(s)

\* content.indexOf(x, from), 1-based; 0 stands for -1
IndexOf(s, x, from) ==
  IF \E i \in from..Len(s) : s[i] = x
  THEN CHOOSE i \in from..Len(s) : s[i] = x /\ \A j \in from..(i - 1) : s[j] # x
  ELSE 0

\* content.slice(from) and content.slice(from, to), 1-based, to exclusive
SliceFrom(s, from) == SubSeq(s, from, Len(s))

Slice(s, from, to) == SubSeq(s, from, to - 1)

(***************************************************************************)
(* A backtracking matcher for the regular expressions of analyze.          *)
(* A pattern is a sequence of items [t, s, sub, g]:                        *)
(*   t = "lit"   one lexeme of the set s                                   *)
(*   t = "star"  s*  greedy            t = "plus"  s+  greedy              *)
(*   t = "name"  ([A-Za-z0-9_$]+)  greedy, captured as group g             *)
(*   t = "lazy"  ([\s\S]*?)  captured as group g                           *)
(*   t = "opt"   (?: sub )?  greedy                                        *)
(*   t = "end"   $                                                         *)
(* Alternatives are tried in the order a backtracking engine tries them,   *)
(* so the captures are those of String.prototype.match.                    *)
(***************************************************************************)
Lit(S) == [t |-> "lit", s |-> S, sub |-> <<>>, g |-> 0]

Star(S) == [t |-> "star", s |-> S, sub |-> <<>>, g |-> 0]

Plus(S) == [t |-> "plus", s |-> S, sub |-> <<>>, g |-> 0]

Name(k) == [t |-> "name", s |-> WordLexemes, sub |-> <<>>, g |-> k]

Lazy(k) == [t |-> "lazy", s |-> {}, sub |-> <<>>, g |-> k]

LazyPlus(k) == [t |-> "lazy1", s |-> {}, sub |-> <<>>, g |-> k]

Opt(p) == [t |-> "opt", s |-> {}, sub |-> p, g |-> 0]

End == [t |-> "end", s |-> {}, sub |-> <<>>, g |-> 0]

NoMatch == [ok |-> FALSE, caps |-> <<>>]

NoCaps == [k \in 1..3 |-> <<>>]

\* length of the longest run of lexemes of S starting at pos
RECURSIVE RunLen(_, _, _)
RunLen(t, pos, S) ==
  IF pos <= Len(t) /\ t[pos] \in S THEN 1 + RunLen(t, pos + 1, S) ELSE 0

RECURSIVE MatchFrom(_, _, _, _)
RECURSIVE TryGreedy(_, _, _, _, _, _, _)
RECURSIVE TryLazy(_, _, _, _, _, _)

\* the item `it` takes n lexemes at pos, n counted down from the longest run to min
TryGreedy(t, it, rest, pos, caps, n, min) ==
  IF n < min THEN NoMatch
  ELSE LET caps2 == IF it.g = 0 THEN caps
                    ELSE [caps EXCEPT ![it.g] = SubSeq(t, pos, pos + n - 1)]
           r == MatchFrom(t, rest, pos + n, caps2)
       IN  IF r.ok THEN r ELSE TryGreedy(t, it, rest, pos, caps, n - 1, min)

\* the lazy group takes n lexemes at pos, n counted up
TryLazy(t, it, rest, pos, caps, n) ==
  IF pos + n > Len(t) + 1 THEN NoMatch
  ELSE LET r == MatchFrom(t, rest, pos + n, [caps EXCEPT ![it.g] = SubSeq(t, pos, pos + n - 1)])
       IN  IF r.ok THEN r ELSE TryLazy(t, it, rest, pos, caps, n + 1)

MatchFrom(t, pat, pos, caps) ==
  IF pat = <<>> THEN [ok |-> TRUE, caps |-> caps]
  ELSE LET it == Head(pat)
           rest == Tail(pat)
       IN  CASE it.t = "lit" ->
                  IF pos <= Len(t) /\ t[pos] \in it.s
                  THEN MatchFrom(t, rest, pos + 1, caps) ELSE NoMatch
             [] it.t = "end" ->
                  IF pos = Len(t) + 1 THEN MatchFrom(t, rest, pos, caps) ELSE NoMatch
             [] it.t = "opt" ->
                  LET r == MatchFrom(t, it.sub \o rest, pos, caps)
                  IN  IF r.ok THEN r ELSE MatchFrom(t, rest, pos, caps)
             [] it.t = "star" -> TryGreedy(t, it, rest, pos, caps, RunLen(t, pos, it.s), 0)
             [] it.t \in {"plus", "name"} ->
                  TryGreedy(t, it, rest, pos, caps, RunLen(t, pos, it.s), 1)
             [] it.t = "lazy" -> TryLazy(t, it, rest, pos, caps, 0)
             [] it.t = "lazy1" -> TryLazy(t, it, rest, pos, caps, 1)

\* trimmed.match(pattern): patterns are anchored with ^
Match(t, pat) == MatchFrom(t, pat, 1, NoCaps)

WS0 == Star(Whitespace)

WS1 == Plus(Whitespace)

\* /^(?:async\s+)?function\s+([A-Za-z0-9_$]+)\s*\(([\s\S]*?)\)\s*\{([\s\S]*?)\}\s*$/
DeclPattern ==
  << Opt(<<Lit({"async"}), WS1>>), Lit({"function"}), WS1, Name(1), WS0,
     Lit({"("}), Lazy(2), Lit({")"}), WS0, Lit({"{"}), Lazy(3), Lit({"}"}), WS0, End >>

\* /^(?:const|let)\s+([A-Za-z0-9_$]+)\s*=\s*(?:async\s*)?\(?([\s\S]*?)\)?\s*=>\s*\{([\s\S]*?)\}\s*;?\s*$/
ArrowPattern ==
  << Lit({"const", "let"}), WS1, Name(1), WS0, Lit({"="}), WS0,
     Opt(<<Lit({"async"}), WS0>>), Opt(<<Lit({"("})>>), Lazy(2), Opt(<<Lit({")"})>>),
     WS0, Lit({"=>"}), WS0, Lit({"{"}), Lazy(3), Lit({"}"}), WS0,
     Opt(<<Lit({";"})>>), WS0, End >>

\* /^(?:const|let)\s+([A-Za-z0-9_$]+)\s*=\s*([\s\S]+?);?\s*$/
ConstantPattern ==
  << Lit({"const", "let"}), WS1, Name(1), WS0, Lit({"="}), WS0,
     LazyPlus(2), Opt(<<Lit({";"})>>), WS0, End >>

\* null (the name of an unknown snippet); a matched name is never empty
Null == <<>>

(***************************************************************************)
(* analyze(snippet): classify the snippet between two markers              *)
(***************************************************************************)
\* analyze that tries the constant pattern before the arrow pattern
analyzeConstantFirst(snippet) ==
  LET trimmed == Trim(snippet)
      decl == Match(trimmed, DeclPattern)
      arrow == Match(trimmed, ArrowPattern)
      constant == Match(trimmed, ConstantPattern)
  IN  IF decl.ok
      THEN [kind |-> "decl", name |-> Trim(decl.caps[1]), params |-> Trim(decl.caps[2]),
            body |-> Trim(decl.caps[3]), original |-> trimmed]
      ELSE IF constant.ok
      THEN [kind |-> "constant", name |-> Trim(constant.caps[1]), params |-> <<>>,
            body |-> <<>>, original |-> trimmed]
      ELSE IF arrow.ok
      THEN [kind |-> "arrow", name |-> Trim(arrow.caps[1]), params |-> Trim(arrow.caps[2]),
            body |-> Trim(arrow.caps[3]), original |-> trimmed]
      ELSE [kind |-> "unknown", name |-> Null, params |-> <<>>,
            body |-> <<>>, original |-> trimmed]

analyze(snippet) ==
  LET trimmed == Trim(snippet)
      decl == Match(trimmed, DeclPattern)
      arrow == Match(trimmed, ArrowPattern)
      constant == Match(trimmed, ConstantPattern)
  IN  IF decl.ok
      THEN [kind |-> "decl", name |-> Trim(decl.caps[1]), params |-> Trim(decl.caps[2]),
            body |-> Trim(decl.caps[3]), original |-> trimmed]
      ELSE IF arrow.ok
      THEN [kind |-> "arrow", name |-> Trim(arrow.caps[1]), params |-> Trim(arrow.caps[2]),
            body |-> Trim(arrow.caps[3]), original |-> trimmed]
      ELSE IF constant.ok
      THEN [kind |-> "constant", name |-> Trim(constant.caps[1]), params |-> <<>>,
            body |-> <<>>, original |-> trimmed]
      ELSE [kind |-> "unknown", name |-> Null, params |-> <<>>,
            body |-> <<>>, original |-> trimmed]

(***************************************************************************)
(* transformFile(relativePath, content): replace each CODEMASK block by a  *)
(* stub and collect the chunk metadata.  ids are the values the successive *)
(* calls of nanoid(8) return.                                              *)
(***************************************************************************)
CM_START == "/* CODEMASK_START */"

CM_END == "/* CODEMASK_END */"

DeclStub(chunkId, info) ==
  <<"/* CODEMASKED:", chunkId, " */\nasync function ">> \o info.name \o <<"(">> \o info.params
    \o <<") {\n  const fn = await window.CodeMask.load(\"", chunkId,
         "\");\n  return fn.apply(this, [">> \o info.params
    \o <<"]);\n}\n/* END_CODEMASKED */\n">>

ArrowStub(chunkId, info) ==
  <<"/* CODEMASKED:", chunkId, " */\nconst ">> \o info.name \o <<" = async (">> \o info.params
    \o <<") => {\n  const fn = await window.CodeMask.load(\"", chunkId,
         "\");\n  return fn(">> \o info.params
    \o <<");\n};\n/* END_CODEMASKED */\n">>

ConstantStub(chunkId, info) ==
  <<"/* CODEMASKED:", chunkId, " */\n(function(){\n  // Load & execute the raw constant snippet so it defines ">>
    \o info.name
    \o <<"\n  var p = window.CodeMask && window.CodeMask.load\n    ? window.CodeMask.load(\"",
         chunkId,
         "\")\n    : Promise.reject(new Error(\"CodeMask SDK not initialized before constants load\"));\n\n  p.then(function(fn){\n    try { if (typeof fn === \"function\") fn(); } catch(e){ console.error(\"CodeMask constant exec error (",
         chunkId,
         ")\", e); }\n  }).catch(function(err){\n    console.error(\"CodeMask constant load failed (",
         chunkId,
         ")\", err);\n  });\n})();\n/* END_CODEMASKED */\n">>

UnknownStub(chunkId, info) ==
  <<"/* CODEMASKED:", chunkId,
    " */\n(function(){\n  var p = window.CodeMask && window.CodeMask.load\n    ? window.CodeMask.load(\"",
    chunkId,
    "\")\n    : Promise.reject(new Error(\"CodeMask SDK not initialized before unknown block load\"));\n\n  p.then(function(fn){\n    try { if (typeof fn === \"function\") fn(); } catch(e){ console.error(\"CodeMask unknown exec error (",
    chunkId,
    ")\", e); }\n  }).catch(function(err){\n    console.error(\"CodeMask unknown load failed (",
    chunkId,
    ")\", err);\n  });\n})();\n/* END_CODEMASKED */\n">>

\* the replacement stub for a classified snippet
StubFor(chunkId, info) ==
  CASE info.kind = "decl" -> DeclStub(chunkId, info)
    [] info.kind = "arrow" -> ArrowStub(chunkId, info)
    [] info.kind = "constant" -> ConstantStub(chunkId, info)
    [] OTHER -> UnknownStub(chunkId, info)

\* the chunk record pushed for a classified snippet
ChunkFor(chunkId, info) ==
  CASE info.kind = "decl" ->
         [chunkId |-> chunkId, type |-> "decl", name |-> info.name, params |-> info.params,
          body |-> info.body, original |-> info.original]
    [] info.kind = "arrow" ->
         [chunkId |-> chunkId, type |-> "arrow", name |-> info.name, params |-> info.params,
          body |-> info.body, original |-> info.original]
    [] info.kind = "constant" ->
         [chunkId |-> chunkId, type |-> "constant", name |-> info.name, params |-> <<>>,
          body |-> <<>>, original |-> info.original]
    [] OTHER ->
         [chunkId |-> chunkId, type |-> "raw", name |-> Null, params |-> <<>>,
          body |-> <<>>, original |-> info.original]

\* the loop without the text after the last block
RECURSIVE ScanLoopDropsRest(_, _, _, _, _)
ScanLoopDropsRest(content, idx, out, chunks, ids) ==
  IF ~(idx <= Len(content)) THEN [out |-> out, chunks |-> chunks]
  ELSE LET start == IndexOf(content, CM_START, idx) IN
       IF start = 0
       THEN [out |-> out, chunks |-> chunks]
       ELSE LET out1 == out \o Slice(content, idx, start)
                end == IndexOf(content, CM_END, start)
            IN  IF end = 0
                THEN [out |-> out1 \o SliceFrom(content, start), chunks |-> chunks]
                ELSE LET raw == Trim(Slice(content, start + 1, end))
                         info == analyze(raw)
                         chunkId == ids[Len(chunks) + 1]
                     IN  ScanLoopDropsRest(content, end + 1, out1 \o StubFor(chunkId, info),
                                           Append(chunks, ChunkFor(chunkId, info)), ids)

\* the loop that stops at a start marker without an end marker and drops the rest
RECURSIVE ScanLoopDropsUnmatched(_, _, _, _, _)
ScanLoopDropsUnmatched(content, idx, out, chunks, ids) ==
  IF ~(idx <= Len(content)) THEN [out |-> out, chunks |-> chunks]
  ELSE LET start == IndexOf(content, CM_START, idx) IN
       IF start = 0
       THEN [out |-> out \o SliceFrom(content, idx), chunks |-> chunks]
       ELSE LET out1 == out \o Slice(content, idx, start)
                end == IndexOf(content, CM_END, start)
            IN  IF end = 0
                THEN [out |-> out1, chunks |-> chunks]
                ELSE LET raw == Trim(Slice(content, start + 1, end))
                         info == analyze(raw)
                         chunkId == ids[Len(chunks) + 1]
                     IN  ScanLoopDropsUnmatched(content, end + 1,
                                                out1 \o StubFor(chunkId, info),
                                                Append(chunks, ChunkFor(chunkId, info)), ids)

\* the while loop of transformFile; idx is 1-based
RECURSIVE ScanLoop(_, _, _, _, _)
ScanLoop(content, idx, out, chunks, ids) ==
  IF ~(idx <= Len(content)) THEN [out |-> out, chunks |-> chunks]
  ELSE LET start == IndexOf(content, CM_START, idx) IN
       IF start = 0
       THEN [out |-> out \o SliceFrom(content, idx), chunks |-> chunks]
       ELSE LET out1 == out \o Slice(content, idx, start)
                end == IndexOf(content, CM_END, start)
            IN  IF end = 0
                THEN [out |-> out1 \o SliceFrom(content, start), chunks |-> chunks]
                ELSE LET raw == Trim(Slice(content, start + 1, end))
                         info == analyze(raw)
                         chunkId == ids[Len(chunks) + 1]
                     IN  ScanLoop(content, end + 1, out1 \o StubFor(chunkId, info),
                                  Append(chunks, ChunkFor(chunkId, info)), ids)

transformFile(relativePath, content, ids) ==
  IF ~Includes(content, CM_START)
  THEN [out |-> content, chunks |-> <<>>]
  ELSE ScanLoop(content, 1, <<>>, <<>>, ids)

(***************************************************************************)
(* processFiles(files): transform the JS/TS files, pass the others through *)
(***************************************************************************)
\* path.extname(relativePath).toLowerCase(); a path is [stem, ext]
ExtLower(ext) ==
  CASE ext = ".JS" -> ".js"
    [] ext = ".HTML" -> ".html"
    [] OTHER -> ext

SkipIds(ids, n) == SubSeq(ids, n + 1, Len(ids))

RECURSIVE processFilesFrom(_, _, _, _)
processFilesFrom(files, processedFiles, chunks, ids) ==
  IF files = <<>> THEN [processedFiles |-> processedFiles, chunks |-> chunks]
  ELSE LET f == Head(files)
           ext == ExtLower(f.relativePath.ext)
           maybeText == ext \in {".js", ".jsx", ".ts", ".tsx", ".mjs"}
       IN  IF ~maybeText
           THEN processFilesFrom(Tail(files),
                                 Append(processedFiles, [relativePath |-> f.relativePath,
                                                         content |-> f.content]),
                                 chunks, ids)
           ELSE LET r == transformFile(f.relativePath, f.content, ids)
                IN  processFilesFrom(Tail(files),
                                     Append(processedFiles, [relativePath |-> f.relativePath,
                                                             content |-> r.out]),
                                     chunks \o r.chunks, SkipIds(ids, Len(r.chunks)))

processFiles(files, ids) == processFilesFrom(files, <<>>, <<>>, ids)

(***************************************************************************)
(* chunkStore.js: the in-memory registry, a Map projectId -> {key, chunks} *)
(* with chunks a Map chunkId -> chunkMeta.  A Map is a function whose      *)
(* domain is the set of keys present.                                      *)
(***************************************************************************)
EmptyMap == <<>>

\* Map.prototype.set
MapSet(m, k, v) == [y \in (DOMAIN m) \cup {k} |-> IF y = k THEN v ELSE m[y]]

\* the values undefined and null
Undefined == [undefined |-> TRUE]

JsNull == [null |-> TRUE]

createProject(s, projectId, key) ==
  MapSet(s, projectId, [key |-> key, chunks |-> EmptyMap])

\* returns the store and whether Error("Project not found") was thrown
putChunk(s, projectId, chunkId, chunkMeta) ==
  IF projectId \notin DOMAIN s
  THEN [threw |-> TRUE, store |-> s]
  ELSE [threw |-> FALSE,
        store |-> [s EXCEPT ![projectId].chunks = MapSet(@, chunkId, chunkMeta)]]

getProject(s, projectId) ==
  IF projectId \in DOMAIN s THEN s[projectId] ELSE Undefined

getChunk(s, projectId, chunkId) ==
  IF projectId \notin DOMAIN s THEN JsNull
  ELSE IF chunkId \in DOMAIN s[projectId].chunks THEN s[projectId].chunks[chunkId]
  ELSE Undefined

(***************************************************************************)
(* Inputs of the server                                                     *)
(***************************************************************************)
ScriptMainJs == "<script src=\"main.js\"></script>"

\* values nanoid(10), nanoid(20) and "chunk_" + nanoid(8) can return
ProjectIds == {"p1", "p2"}

Keys == {"k1", "k2"}

ChunkIds == {"chunk_a", "chunk_b"}

\* a request without ?key= (req.query.key is undefined)
UndefinedKey == "undefined"

QueryKeys == Keys \cup {UndefinedKey}

JsDecl ==
  <<"function", " ", "foo", "(", "x", ")", " ", "{", " ", "return", " ", "x", ";", " ", "}">>

JsArrow ==
  <<"const", " ", "bar", " ", "=", " ", "(", "y", ")", " ", "=>", " ", "{", " ",
    "return", " ", "y", ";", " ", "}", ";">>

JsConst == <<"const", " ", "TABLE", " ", "=", " ", "1", ";">>

JsUnknown == <<"x", "(", ")", ";">>

Marked(fragment) == <<CM_START, "\n">> \o fragment \o <<"\n", CM_END>>

AppJs ==
  <<"let", " ", "y", ";", "\n">> \o Marked(JsDecl) \o <<"\n">> \o Marked(JsConst)
    \o <<"\n", "y", ";">>

LibJs == Marked(JsArrow) \o <<"\n">> \o Marked(JsUnknown) \o <<"\n", CM_START, " ", "x", ";">>

IndexHtml == <<"<body>", CM_START, "x", ";", CM_END, ScriptMainJs, "</body>">>

File(stem, ext, content) == [relativePath |-> [stem |-> stem, ext |-> ext], content |-> content]

\* the uploads (req.files) of the mask requests
Uploads ==
  { <<>>,
    <<File("app", ".js", AppJs)>>,
    <<File("LIB", ".JS", LibJs)>>,
    <<File("index", ".html", IndexHtml), File("main", ".js", Marked(JsDecl))>> }

\* the number of CODEMASK_START markers in the files
RECURSIVE StartMarkers(_)
StartMarkers(files) ==
  IF files = <<>> THEN 0
  ELSE Cardinality({i \in DOMAIN Head(files).content : Head(files).content[i] = CM_START})
         + StartMarkers(Tail(files))

\* the number of calls of nanoid(8) that processFiles(files) makes
NanoidCalls(files) ==
  Len(processFiles(files, [i \in 1..StartMarkers(files) |-> "chunk_"]).chunks)

\* chunk metadata for direct calls of putChunk
SampleChunks ==
  { [type |-> c.type, name |-> c.name, params |-> c.params, body |-> c.body,
     original |-> c.original] :
      c \in { ChunkFor("chunk_a", analyze(f)) : f \in {JsDecl, JsArrow, JsConst, JsUnknown} } }

(***************************************************************************)
(* index.js: POST /api/mask                                                *)
(***************************************************************************)
\* lexemes in which "main.js" occurs
MainJsLexemes == {ScriptMainJs, "main.js"}

InjectedSnippet(projectId, envKey) ==
  <<"\n<!-- CodeMask SDK (auto-injected) -->\n<script src=\"http://localhost:5050/sdk/codemask-sdk.js\"></script>\n<script>\n  if (window.CodeMask) {\n    window.CodeMask.init({\n      baseUrl: \"http://localhost:5050\",\n      projectId: \"",
    projectId, "\",\n      key: \"", envKey,
    "\"\n    });\n  } else {\n    console.error(\"CodeMask SDK failed to load before init()\");\n  }\n</script>\n<!-- End CodeMask SDK -->\n">>

\* html.replace(lexeme, replacement): the first occurrence only
ReplaceFirst(html, lexeme, replacement) ==
  LET i == IndexOf(html, lexeme, 1)
  IN  IF i = 0 THEN html
      ELSE SubSeq(html, 1, i - 1) \o replacement \o SubSeq(html, i + 1, Len(html))

injectSdkIntoHtml(html, sdkSnippet, projectId, envKey) ==
  LET injectedSnippet == InjectedSnippet(projectId, envKey)
  IN  IF \E x \in MainJsLexemes : Includes(html, x)
      THEN ReplaceFirst(html, ScriptMainJs, injectedSnippet \o <<"\n", ScriptMainJs>>)
      ELSE IF Includes(html, "</body>")
      THEN ReplaceFirst(html, "</body>", injectedSnippet \o <<"\n", "</body>">>)
      ELSE html \o <<"\n">> \o injectedSnippet

SdkSnippet(projectId, envKey) ==
  <<"<script src=\"http://localhost:5050/sdk/codemask-sdk.js\"></script>\n<script>\n  window.CodeMask.init({\n    baseUrl: \"http://localhost:5050\",\n    projectId: \"",
    projectId, "\",\n    key: \"", envKey, "\"\n  });\n</script>">>

\* the loop "for (const c of chunks) putChunk(projectId, c.chunkId, {...})"
RECURSIVE StoreChunks(_, _, _)
StoreChunks(s, projectId, chunks) ==
  IF chunks = <<>> THEN [threw |-> FALSE, store |-> s]
  ELSE LET c == Head(chunks)
           r == putChunk(s, projectId, c.chunkId,
                         [type |-> c.type, name |-> c.name, params |-> c.params,
                          body |-> c.body, original |-> c.original])
       IN  IF r.threw THEN r ELSE StoreChunks(r.store, projectId, Tail(chunks))

\* makeZip(files): the archive, one entry per file (its base64 text is not modelled)
makeZip(files) == [i \in DOMAIN files |-> [name |-> files[i].relativePath, data |-> files[i].content]]

\* lines 82-110 of the handler: the SDK snippet, the injection and the response
MaskRespond(stored, processedFiles, projectId, envKey) ==
  LET sdkSnippet == SdkSnippet(projectId, envKey)
      injected == [i \in DOMAIN processedFiles |->
                     IF processedFiles[i].relativePath.ext = ".html"
                     THEN [processedFiles[i] EXCEPT !.content =
                             injectSdkIntoHtml(@, sdkSnippet, projectId, envKey)]
                     ELSE processedFiles[i]]
  IN  IF stored.threw
      THEN [store |-> stored.store,
            res |-> [status |-> 500, body |-> [error |-> "Project not found"]]]
      ELSE [store |-> stored.store,
            res |-> [status |-> 200,
                     body |-> [projectId |-> projectId, envKey |-> envKey,
                               sdkSnippet |-> sdkSnippet,
                               download |-> makeZip(injected)]]]

\* the handler; projectId, envKey and ids are what nanoid returns
MaskHandler(s, files, projectId, envKey, ids) ==
  CHOOSE r \in UNION { { MaskRespond(stored, pf.processedFiles, projectId, envKey) :
                           stored \in {StoreChunks(createProject(s, projectId, envKey),
                                                   projectId, pf.chunks)} } :
                         pf \in {processFiles(files, ids)} } : TRUE

(***************************************************************************)
(* index.js: GET /api/fetch/:projectId/:chunkId?key=                       *)
(***************************************************************************)
\* `(${chunk.params}) => { ${chunk.body} }`
FuncSource(chunk) ==
  <<"(">> \o chunk.params \o <<")", " ", "=>", " ", "{", " ">> \o chunk.body \o <<" ", "}">>

\* FetchHandler with the chunk lookup answering before the key comparison
FetchHandlerChunkFirst(s, projectId, chunkId, qkey) ==
  LET project == getProject(s, projectId)
      chunk == getChunk(s, projectId, chunkId)
  IN  IF project = Undefined
      THEN [status |-> 404, body |-> [error |-> "Project not found"]]
      ELSE IF chunk = Undefined \/ chunk = JsNull
      THEN [status |-> 404, body |-> [error |-> "Chunk not found"]]
      ELSE IF qkey # project.key
      THEN [status |-> 403, body |-> [error |-> "Invalid key"]]
      ELSE IF chunk.type = "decl" \/ chunk.type = "arrow"
      THEN [status |-> 200,
            body |-> [ok |-> TRUE, kind |-> "function", name |-> chunk.name,
                      code |-> FuncSource(chunk)]]
      ELSE [status |-> 200, body |-> [ok |-> TRUE, kind |-> "raw", code |-> chunk.original]]

\* FetchHandler without the key comparison
FetchHandlerNoKey(s, projectId, chunkId, qkey) ==
  LET project == getProject(s, projectId)
      chunk == getChunk(s, projectId, chunkId)
  IN  IF project = Undefined
      THEN [status |-> 404, body |-> [error |-> "Project not found"]]
      ELSE IF chunk = Undefined \/ chunk = JsNull
      THEN [status |-> 404, body |-> [error |-> "Chunk not found"]]
      ELSE IF chunk.type = "decl" \/ chunk.type = "arrow"
      THEN [status |-> 200,
            body |-> [ok |-> TRUE, kind |-> "function", name |-> chunk.name,
                      code |-> FuncSource(chunk)]]
      ELSE [status |-> 200, body |-> [ok |-> TRUE, kind |-> "raw", code |-> chunk.original]]

\* FetchHandler that serves only "decl" chunks as functions
FetchHandlerDeclOnly(s, projectId, chunkId, qkey) ==
  LET project == getProject(s, projectId)
      chunk == getChunk(s, projectId, chunkId)
  IN  IF project = Undefined
      THEN [status |-> 404, body |-> [error |-> "Project not found"]]
      ELSE IF qkey # project.key
      THEN [status |-> 403, body |-> [error |-> "Invalid key"]]
      ELSE IF chunk = Undefined \/ chunk = JsNull
      THEN [status |-> 404, body |-> [error |-> "Chunk not found"]]
      ELSE IF chunk.type = "decl"
      THEN [status |-> 200,
            body |-> [ok |-> TRUE, kind |-> "function", name |-> chunk.name,
                      code |-> FuncSource(chunk)]]
      ELSE [status |-> 200, body |-> [ok |-> TRUE, kind |-> "raw", code |-> chunk.original]]

FetchHandler(s, projectId, chunkId, qkey) ==
  LET project == getProject(s, projectId)
      chunk == getChunk(s, projectId, chunkId)
  IN  IF project = Undefined
      THEN [status |-> 404, body |-> [error |-> "Project not found"]]
      ELSE IF qkey # project.key
      THEN [status |-> 403, body |-> [error |-> "Invalid key"]]
      ELSE IF chunk = Undefined \/ chunk = JsNull
      THEN [status |-> 404, body |-> [error |-> "Chunk not found"]]
      ELSE IF chunk.type = "decl" \/ chunk.type = "arrow"
      THEN [status |-> 200,
            body |-> [ok |-> TRUE, kind |-> "function", name |-> chunk.name,
                      code |-> FuncSource(chunk)]]
      ELSE [status |-> 200, body |-> [ok |-> TRUE, kind |-> "raw", code |-> chunk.original]]

(***************************************************************************)
(* index.js: the SDK served at /sdk/codemask-sdk.js, run in a browser page *)
(***************************************************************************)
\* calls of load and of init in one page
MaxLoads == 3

MaxInits == 2

\* the page after the SDK script has run (lines 158-162 and 205)
NewPage ==
  [state |-> [baseUrl |-> "", projectId |-> "", key |-> "", cache |-> EmptyMap],
   initialized |-> FALSE,
   waiters |-> <<>>,       \* the indexes of the loads whose closure is queued
   readyResolved |-> FALSE, \* _resolveReady() has been called
   readyEvents |-> 0,       \* CodeMaskReady events dispatched on window
   published |-> FALSE,     \* window.CodeMask._state refers to state
   inits |-> 0,             \* calls of init
   loads |-> <<>>,          \* one entry per call of load: the promise it returned,
                            \* whether its closure was queued, the response status
                            \* (0: none) and the payload its fetch received
   fetches |-> <<>>,        \* the calls of fetch(url), in order
   settled |-> <<>>]        \* the loads in the order their promises settled

\* encodeURIComponent(key) and the server's decoding of the query string
encodeURIComponent(key) == IF key = "k&1" THEN "k%261" ELSE key

decodeQuery(text) == IF text = "k%261" THEN "k&1" ELSE text

\* line 178
Url(state, chunkId) ==
  <<state.baseUrl, "/api/fetch/", state.projectId, "/", chunkId, "?key=",
    encodeURIComponent(state.key)>>

\* a promise of a load is settled
Settle(pg, i, outcome, value) ==
  [pg EXCEPT !.loads[i].pc = outcome, !.loads[i].value = value,
             !.settled = Append(@, i)]

\* loadImpl that joins a fetch already in flight for the same chunk id
loadImplShared(pg, i) ==
  LET chunkId == pg.loads[i].chunkId
  IN  IF chunkId \in DOMAIN pg.state.cache
      THEN [pg EXCEPT !.loads[i].pc = "returned",
                      !.loads[i].value = pg.state.cache[chunkId]]
      ELSE IF \E j \in DOMAIN pg.loads :
                j # i /\ pg.loads[j].chunkId = chunkId /\ pg.loads[j].pc = "fetch"
      THEN [pg EXCEPT !.loads[i].pc = "fetch"]
      ELSE [pg EXCEPT !.loads[i].pc = "fetch",
                      !.fetches = Append(@, [load |-> i, url |-> Url(pg.state, chunkId),
                                             readyResolved |-> pg.readyResolved,
                                             readyEvents |-> pg.readyEvents,
                                             published |-> pg.published])]

\* _loadImpl(chunkId) for load i, up to its return or its first await
loadImpl(pg, i) ==
  LET chunkId == pg.loads[i].chunkId
  IN  IF chunkId \in DOMAIN pg.state.cache
      THEN [pg EXCEPT !.loads[i].pc = "returned",
                      !.loads[i].value = pg.state.cache[chunkId]]
      ELSE [pg EXCEPT !.loads[i].pc = "fetch",
                      !.fetches = Append(@, [load |-> i, url |-> Url(pg.state, chunkId),
                                             readyResolved |-> pg.readyResolved,
                                             readyEvents |-> pg.readyEvents,
                                             published |-> pg.published])]

\* loadImplResponse that leaves the promise pending after a non-success response
loadImplResponseHangs(pg, i, r) ==
  LET got == [pg EXCEPT !.loads[i].status = r.status]
  IN  IF ~(r.status \in 200..299)
      THEN [got EXCEPT !.loads[i].pc = "thrown"]
      ELSE [got EXCEPT !.loads[i].pc = "json", !.loads[i].data = r.body]

\* loadImplResponse that fetches again after a non-success response
loadImplResponseRetry(pg, i, r) ==
  LET got == [pg EXCEPT !.loads[i].status = r.status]
  IN  IF ~(r.status \in 200..299)
      THEN IF pg.loads[i].status = 0 THEN loadImpl(got, i)
           ELSE Settle(got, i, "rejected",
                       [error |-> <<"Failed to load chunk ", pg.loads[i].chunkId>>])
      ELSE [got EXCEPT !.loads[i].pc = "json", !.loads[i].data = r.body]

\* _loadImpl resumed with the response r of its fetch (line 180, and the call of r.json())
loadImplResponse(pg, i, r) ==
  LET got == [pg EXCEPT !.loads[i].status = r.status]
  IN  IF ~(r.status \in 200..299)
      THEN Settle(got, i, "rejected",
                  [error |-> <<"Failed to load chunk ", pg.loads[i].chunkId>>])
      ELSE [got EXCEPT !.loads[i].pc = "json", !.loads[i].data = r.body]

\* loadImplData that caches whatever it compiled
loadImplDataCacheAll(pg, i, data) ==
  LET fn == IF data.kind = "function"
            THEN [fn |-> "expression", code |-> data.code]
            ELSE [fn |-> "body", code |-> data.code]
  IN  Settle([pg EXCEPT !.state.cache = MapSet(@, pg.loads[i].chunkId, fn)],
             i, "resolved", fn)

\* _loadImpl resumed with the parsed body (lines 182-188); a compiled function
\* is [fn, code]: the value of the expression code, or a function with body code
\* (the code the server builds from the fragments of ServerStore compiles)
loadImplData(pg, i, data) ==
  IF data.kind = "function"
  THEN LET fn == [fn |-> "expression", code |-> data.code]
       IN  Settle([pg EXCEPT !.state.cache = MapSet(@, pg.loads[i].chunkId, fn)],
                  i, "resolved", fn)
  ELSE Settle(pg, i, "resolved", [fn |-> "body", code |-> data.code])

\* load that does not look at initialized
loadEager(pg, chunkId) ==
  LET i == Len(pg.loads) + 1
      called == [pg EXCEPT !.loads = Append(@, [chunkId |-> chunkId,
                                                 queued |-> ~pg.initialized,
                                                 pc |-> "called", status |-> 0,
                                                 data |-> Undefined,
                                                 value |-> Undefined])]
      r == loadImpl(called, i)
  IN  IF r.loads[i].pc = "returned"
      THEN Settle(r, i, "resolved", r.loads[i].value)
      ELSE r

\* load(chunkId): the call that returns promise number Len(loads) + 1
load(pg, chunkId) ==
  LET i == Len(pg.loads) + 1
      called == [pg EXCEPT !.loads = Append(@, [chunkId |-> chunkId,
                                                 queued |-> ~pg.initialized,
                                                 pc |-> "called", status |-> 0,
                                                 data |-> Undefined,
                                                 value |-> Undefined])]
  IN  IF pg.initialized
      THEN LET r == loadImpl(called, i)
           IN  IF r.loads[i].pc = "returned"
               THEN Settle(r, i, "resolved", r.loads[i].value)
               ELSE r
      ELSE [called EXCEPT !.loads[i].pc = "queued", !.waiters = Append(@, i)]

\* the flush that starts the closure queued last first
RECURSIVE FlushLastFirst(_, _)
FlushLastFirst(pg, queued) ==
  IF queued = <<>> THEN pg
  ELSE FlushLastFirst(loadImpl(pg, queued[Len(queued)]), SubSeq(queued, 1, Len(queued) - 1))

\* queued.forEach(fn => { try { fn(); } catch(_){} })
RECURSIVE Flush(_, _)
Flush(pg, queued) ==
  IF queued = <<>> THEN pg ELSE Flush(loadImpl(pg, Head(queued)), Tail(queued))

\* the microtasks after init: a queued closure whose _loadImpl returned a
\* cached value resolves its promise
RECURSIVE Resume(_, _)
Resume(pg, queued) ==
  IF queued = <<>> THEN pg
  ELSE LET i == Head(queued)
       IN  IF pg.loads[i].pc = "returned"
           THEN Resume(Settle(pg, i, "resolved", pg.loads[i].value), Tail(queued))
           ELSE Resume(pg, Tail(queued))

\* init that starts the queued closures and leaves them in the queue
initKeepsQueue(pg, opts) ==
  LET assigned == [pg EXCEPT !.state.baseUrl = opts.baseUrl,
                             !.state.projectId = opts.projectId,
                             !.state.key = opts.key,
                             !.initialized = TRUE,
                             !.readyResolved = TRUE,
                             !.inits = @ + 1]
      queued == assigned.waiters
      flushed == Flush(assigned, queued)
      dispatched == [flushed EXCEPT !.readyEvents = @ + 1]
      published == [dispatched EXCEPT !.published = TRUE]
  IN  Resume(published, queued)

\* init that starts with an empty cache
initClearsCache(pg, opts) ==
  LET assigned == [pg EXCEPT !.state.baseUrl = opts.baseUrl,
                             !.state.projectId = opts.projectId,
                             !.state.key = opts.key,
                             !.state.cache = EmptyMap,
                             !.initialized = TRUE,
                             !.readyResolved = TRUE,
                             !.inits = @ + 1]
      queued == assigned.waiters
      flushed == Flush([assigned EXCEPT !.waiters = <<>>], queued)
      dispatched == [flushed EXCEPT !.readyEvents = @ + 1]
      published == [dispatched EXCEPT !.published = TRUE]
  IN  Resume(published, queued)

\* init that does nothing but count when the loader is initialized already
initOnce(pg, opts) ==
  IF pg.initialized THEN [pg EXCEPT !.inits = @ + 1]
  ELSE LET assigned == [pg EXCEPT !.state.baseUrl = opts.baseUrl,
                                  !.state.projectId = opts.projectId,
                                  !.state.key = opts.key,
                                  !.initialized = TRUE,
                                  !.readyResolved = TRUE,
                                  !.inits = @ + 1]
           queued == assigned.waiters
           flushed == Flush([assigned EXCEPT !.waiters = <<>>], queued)
           dispatched == [flushed EXCEPT !.readyEvents = @ + 1]
           published == [dispatched EXCEPT !.published = TRUE]
       IN  Resume(published, queued)

\* init(opts), lines 165-173, and the microtasks it leaves
init(pg, opts) ==
  LET assigned == [pg EXCEPT !.state.baseUrl = opts.baseUrl,
                             !.state.projectId = opts.projectId,
                             !.state.key = opts.key,
                             !.initialized = TRUE,
                             !.readyResolved = TRUE,
                             !.inits = @ + 1]
      queued == assigned.waiters
      flushed == Flush([assigned EXCEPT !.waiters = <<>>], queued)
      dispatched == [flushed EXCEPT !.readyEvents = @ + 1]
      published == [dispatched EXCEPT !.published = TRUE]
  IN  Resume(published, queued)

\* the options the page's scripts pass to init
InitOpts ==
  { [baseUrl |-> "http://localhost:5050", projectId |-> "p1", key |-> k] :
      k \in {"k1", "k&1"} }

\* the server's registry while the page runs: project p1 with key k1, a
\* function declaration under chunk_a and an unrecognized fragment under chunk_b
ServerStore ==
  [p1 |-> [key |-> "k1",
           chunks |-> [chunk_a |-> [type |-> "decl", name |-> <<"foo">>, params |-> <<"x">>,
                                    body |-> <<"return", " ", "x", ";">>, original |-> JsDecl],
                       chunk_b |-> [type |-> "raw", name |-> Null, params |-> <<>>,
                                    body |-> <<>>, original |-> JsUnknown]]]]

\* the server's answer to GET url
Respond(url) == FetchHandler(ServerStore, url[3], url[5], decodeQuery(url[7]))

(***************************************************************************)
(* State                                                                   *)
(***************************************************************************)
VARIABLES
  store,   \* chunkStore.js: const store = new Map()
  http,    \* the request the server handled last, and its response
  ret,     \* the value the last direct call of a chunkStore function returned
  page,    \* a browser page that runs the SDK: its closure, window and promises
  call     \* one call of a function of parser.js: its argument and its result

vars == <<store, http, ret, page, call>>

\* the chunk ids of the stubs (/* CODEMASKED:<id> */) in the files of an archive
StubIds(zip) ==
  UNION { {zip[f].data[i + 1] : i \in {j \in 1..(Len(zip[f].data) - 1) : zip[f].data[j] = "/* CODEMASKED:"}} :
            f \in DOMAIN zip }

NoCall == [fn |-> "none"]

NoExchange == [req |-> [route |-> "none"], res |-> [status |-> 0]]

Init ==
  /\ store = EmptyMap
  /\ http = NoExchange
  /\ ret = Undefined
  /\ page = NewPage
  /\ call = NoCall

\* POST /api/mask
Mask ==
  \E files \in Uploads, projectId \in ProjectIds, envKey \in Keys :
    \E ids \in [1..NanoidCalls(files) -> ChunkIds] :
    \E r \in {MaskHandler(store, files, projectId, envKey, ids)} :
      /\ store' = r.store
      /\ http' = [req |-> [route |-> "mask", files |-> files], res |-> r.res]
      /\ UNCHANGED <<ret, page, call>>

\* GET /api/fetch/:projectId/:chunkId?key=qkey
ApiFetch ==
  \E projectId \in ProjectIds, chunkId \in ChunkIds, qkey \in QueryKeys :
    /\ http' = [req |-> [route |-> "fetch", projectId |-> projectId, chunkId |-> chunkId,
                         key |-> qkey],
                res |-> FetchHandler(store, projectId, chunkId, qkey)]
    /\ UNCHANGED <<store, ret, page, call>>

Next == Mask \/ ApiFetch

Spec == Init /\ [][Next]_vars

(***************************************************************************)
(* Properties of the two routes                                            *)
(***************************************************************************)
Fetched == http.req.route = "fetch"

Registered == http.req.projectId \in DOMAIN store

KeyMatches == http.req.key = store[http.req.projectId].key

ChunkStored == http.req.chunkId \in DOMAIN store[http.req.projectId].chunks

\* C1: a fetch is answered by three checks in this order: an unregistered
\* project gives 404 "Project not found"; else a key that differs from the
\* project's key (a missing key included) gives 403 "Invalid key", whether the
\* chunk exists or not; else a chunk that is not in the project gives 404
\* "Chunk not found"; else the answer is a 200.
C1_FetchCheckOrder ==
  Fetched =>
    /\ ~Registered =>
         http.res = [status |-> 404, body |-> [error |-> "Project not found"]]
    /\ Registered /\ ~KeyMatches =>
         http.res = [status |-> 403, body |-> [error |-> "Invalid key"]]
    /\ Registered /\ KeyMatches /\ ~ChunkStored =>
         http.res = [status |-> 404, body |-> [error |-> "Chunk not found"]]
    /\ Registered /\ KeyMatches /\ ChunkStored => http.res.status = 200

\* a wrong key and a chunk id that is not in the registered project: Forbidden
C1_Witness ==
  /\ Fetched /\ Registered /\ ~KeyMatches /\ ~ChunkStored
  /\ http.req.key \in Keys
  /\ http.res.status = 403

\* the texts a response may carry for a stored chunk
TextsOf(chunk) == {chunk.original, FuncSource(chunk)}

\* C2: a fetch response carries a chunk's source text only if the project named
\* in the request is registered, the supplied key equals that project's key and
\* the chunk is stored under that project; the text is that chunk's text.
C2_KeyIsolation ==
  Fetched /\ "code" \in DOMAIN http.res.body =>
    /\ Registered
    /\ KeyMatches
    /\ ChunkStored
    /\ http.res.body.code \in TextsOf(store[http.req.projectId].chunks[http.req.chunkId])

\* two projects with different keys, a chunk id stored in both; the holder of
\* the one key is refused the other project's chunk
C2_Witness ==
  /\ Fetched /\ Registered /\ ChunkStored /\ ~KeyMatches
  /\ \E other \in DOMAIN store :
       /\ other # http.req.projectId
       /\ store[other].key = http.req.key
       /\ http.req.chunkId \in DOMAIN store[other].chunks
  /\ "code" \notin DOMAIN http.res.body

\* C3: an authorized fetch is shaped by the stored chunk's type: "decl" and
\* "arrow" give {ok, kind "function", name, code "(<params>) => { <body> }"};
\* "constant" and "raw" (the type stored for unrecognized fragments) give
\* {ok, kind "raw", code <original>} without a name; no other type is stored.
C3_ResponseShape ==
  Fetched /\ http.res.status = 200 =>
    LET chunk == store[http.req.projectId].chunks[http.req.chunkId]
    IN  /\ chunk.type \in {"decl", "arrow", "constant", "raw"}
        /\ chunk.type \in {"decl", "arrow"} =>
             http.res.body =
               [ok |-> TRUE, kind |-> "function", name |-> chunk.name,
                code |-> <<"(">> \o chunk.params \o <<")", " ", "=>", " ", "{", " ">>
                           \o chunk.body \o <<" ", "}">>]
        /\ chunk.type \in {"constant", "raw"} =>
             http.res.body = [ok |-> TRUE, kind |-> "raw", code |-> chunk.original]

\* the arrow function of LIB.JS served as "(y) => { return y; }"
C3_Witness ==
  /\ Fetched /\ http.res.status = 200
  /\ store[http.req.projectId].chunks[http.req.chunkId].type = "arrow"
  /\ http.res.body.name = <<"bar">>
  /\ http.res.body.code =
       <<"(", "y", ")", " ", "=>", " ", "{", " ", "return", " ", "y", ";", " ", "}">>
  /\ \E p \in DOMAIN store : \E c \in DOMAIN store[p].chunks :
       store[p].chunks[c].type = "raw"

\* the mask request just answered 200
Masked == http.req.route = "mask" /\ http.res.status = 200

\* the fetch (projectId, chunkId, key) is answered 200 in the store s
Fetchable(s, projectId, chunkId, key) ==
  FetchHandler(s, projectId, chunkId, key).status = 200

\* C4: when a mask request has returned (projectId, key), every chunk id in a
\* stub of the returned files is fetchable with (projectId, chunk id, key), and
\* what is fetchable stays fetchable across every later mask and fetch request.
C4_MaskedChunksFetchable ==
  /\ [](Masked =>
          \A c \in StubIds(http.res.body.download) :
            Fetchable(store, http.res.body.projectId, c, http.res.body.envKey))
  /\ [][\A p \in ProjectIds, c \in ChunkIds, k \in Keys :
          Fetchable(store, p, c, k) => Fetchable(store', p, c, k)]_vars

(***************************************************************************)
(* The functions chunkStore.js exports, called directly in any order       *)
(***************************************************************************)
CreateProject ==
  \E projectId \in ProjectIds, key \in Keys :
    /\ store' = createProject(store, projectId, key)
    /\ ret' = Undefined
    /\ UNCHANGED <<http, page, call>>

PutChunk ==
  \E projectId \in ProjectIds, chunkId \in ChunkIds, chunkMeta \in SampleChunks :
    LET r == putChunk(store, projectId, chunkId, chunkMeta)
    IN  /\ store' = r.store
        /\ ret' = IF r.threw THEN [threw |-> "Project not found"] ELSE Undefined
        /\ UNCHANGED <<http, page, call>>

GetProject ==
  \E projectId \in ProjectIds :
    /\ ret' = getProject(store, projectId)
    /\ UNCHANGED <<store, http, page, call>>

GetChunk ==
  \E projectId \in ProjectIds, chunkId \in ChunkIds :
    /\ ret' = getChunk(store, projectId, chunkId)
    /\ UNCHANGED <<store, http, page, call>>

RegistryNext == CreateProject \/ PutChunk \/ GetProject \/ GetChunk

RegistrySpec == Init /\ [][RegistryNext]_vars

\* C10: the registry grows monotonically: across every call of createProject,
\* putChunk, getProject and getChunk a registered project stays registered with
\* the same key, and a stored chunk stays stored with the same content.
C10_RegistryMonotonic ==
  [][\A p \in DOMAIN store :
       /\ p \in DOMAIN store'
       /\ store'[p].key = store[p].key
       /\ \A c \in DOMAIN store[p].chunks :
            /\ c \in DOMAIN store'[p].chunks
            /\ store'[p].chunks[c] = store[p].chunks[c]]_vars

(***************************************************************************)
(* parser.js: transformFile and analyze, each applied once to an argument  *)
(***************************************************************************)
\* the pieces a file content is put together from
MaxPieces == 4

Pieces ==
  {<<CM_START>>, <<CM_END>>, <<"x", ";">>, <<"\n">>, Marked(JsDecl), Marked(JsConst)}

RECURSIVE Texts(_)
Texts(n) ==
  IF n = 0 THEN {<<>>}
  ELSE LET shorter == Texts(n - 1)
       IN  shorter \cup {t \o p : t \in shorter, p \in Pieces}

Contents == Texts(MaxPieces)

\* the number of calls of nanoid(8) that transformFile(content) makes
NanoidCallsIn(content) ==
  Len(transformFile("file.js", content, [i \in 1..Len(content) |-> "chunk_"]).chunks)

\* the snippets analyze is applied to: padding, a head, a name, a middle, a
\* tail, padding
SnippetHeads ==
  {<<"function", " ">>, <<"async", " ", "function", " ">>, <<"const", " ">>, <<"let", " ">>,
   <<>>}

SnippetNames == {<<"foo">>, <<>>}

SnippetMiddles ==
  {<<"(", "x", ")">>,
   <<" ", "=", " ", "(", "x", ")", " ", "=>">>,
   <<" ", "=", " ", "async", " ", "x", " ", "=>">>,
   <<"=">>,
   <<>>}

SnippetTails ==
  {<<" ", "{", " ", "return", " ", "x", ";", " ", "}">>,
   <<"{", "}", ";">>,
   <<"{", "}", " ", "x">>,
   <<" ", "1", ";">>,
   <<>>}

SnippetPads == {<<>>, <<" ", "\n">>}

Snippets ==
  {before \o h \o n \o m \o t \o after :
     before \in SnippetPads, h \in SnippetHeads, n \in SnippetNames,
     m \in SnippetMiddles, t \in SnippetTails, after \in SnippetPads}

ParserInit ==
  /\ store = EmptyMap
  /\ http = NoExchange
  /\ ret = Undefined
  /\ page = NewPage
  /\ call \in {[fn |-> "transformFile", content |-> c, done |-> FALSE] : c \in Contents}
              \cup {[fn |-> "analyze", snippet |-> x, done |-> FALSE] : x \in Snippets}

\* analyze(snippet)
Analyze ==
  /\ call.fn = "analyze" /\ ~call.done
  /\ call' = [fn |-> "analyze", snippet |-> call.snippet, done |-> TRUE,
              info |-> analyze(call.snippet)]
  /\ UNCHANGED <<store, http, ret, page>>

\* transformFile(relativePath, content)
TransformFile ==
  /\ call.fn = "transformFile" /\ ~call.done
  /\ \E ids \in [1..NanoidCallsIn(call.content) -> ChunkIds] :
       \E r \in {transformFile("file.js", call.content, ids)} :
         call' = [fn |-> "transformFile", content |-> call.content, done |-> TRUE,
                  ids |-> ids, out |-> r.out, chunks |-> r.chunks]
  /\ UNCHANGED <<store, http, ret, page>>

ParserNext == TransformFile \/ Analyze

ParserSpec == ParserInit /\ [][ParserNext]_vars

(***************************************************************************)
(* Properties of the scanner and the classifier                            *)
(***************************************************************************)
Scanned == call.fn = "transformFile" /\ call.done

\* the first index at or after from where text holds one of the lexemes, or 0
First(text, lexemes, from) ==
  IF \E i \in from..Len(text) : text[i] \in lexemes
  THEN CHOOSE i \in from..Len(text) :
         text[i] \in lexemes /\ \A j \in from..(i - 1) : text[j] \notin lexemes
  ELSE 0

\* text with every span from a lexeme of opens to the first lexeme of closes
\* after it replaced by the one lexeme "<stub>"; a span that is not closed stays
RECURSIVE Collapse(_, _, _)
Collapse(text, opens, closes) ==
  LET s == First(text, opens, 1)
      e == First(text, closes, s + 1)
  IN  IF s = 0 \/ e = 0 THEN text
      ELSE SubSeq(text, 1, s - 1) \o <<"<stub>">>
             \o Collapse(SubSeq(text, e + 1, Len(text)), opens, closes)

\* the lexemes a stub begins and ends with
StubOpens == {"/* CODEMASKED:"}

StubCloses ==
  { "]);\n}\n/* END_CODEMASKED */\n",
    ");\n};\n/* END_CODEMASKED */\n",
    ")\", err);\n  });\n})();\n/* END_CODEMASKED */\n" }

Count(text, lexeme) == Cardinality({i \in DOMAIN text : text[i] = lexeme})

\* C11: the output of the scanner is the input with each matched marker pair,
\* and the text between, replaced by exactly one stub, and every other lexeme
\* kept in place; one chunk per stub; an input without a matched pair comes
\* out unchanged, with no chunk.
C11_VerbatimOutsideMarkers ==
  Scanned =>
    LET expected == Collapse(call.content, {CM_START}, {CM_END})
    IN  /\ Collapse(call.out, StubOpens, StubCloses) = expected
        /\ Len(call.chunks) = Count(expected, "<stub>")
        /\ expected = call.content => call.out = call.content /\ call.chunks = <<>>

\* text, a marked declaration, text, a marked constant
C11_Witness ==
  /\ Scanned
  /\ call.content = <<"x", ";">> \o Marked(JsDecl) \o <<"\n">> \o Marked(JsConst)
  /\ Len(call.chunks) = 2
  /\ SubSeq(call.out, 1, 3) = <<"x", ";", "/* CODEMASKED:">>
  /\ Count(call.out, "\n") = 1
  /\ Count(call.out, "/* CODEMASKED:") = 2

\* the markers of a text, in order
Markers(text) == SelectSeq(text, LAMBDA x : x \in {CM_START, CM_END})

\* the markers are start, end, start, end, ...
WellFormed(text) ==
  LET m == Markers(text)
  IN  /\ Len(m) % 2 = 0
      /\ \A i \in DOMAIN m : m[i] = IF i % 2 = 1 THEN CM_START ELSE CM_END

\* the index of the k-th occurrence of lexeme in text
Nth(text, lexeme, k) ==
  CHOOSE i \in DOMAIN text :
    text[i] = lexeme /\ Count(SubSeq(text, 1, i), lexeme) = k

\* the chunk ids in the stubs of a text, in order
StubIdsIn(text) ==
  [k \in 1..Count(text, "/* CODEMASKED:") |-> text[Nth(text, "/* CODEMASKED:", k) + 1]]

\* the counting part of C12: N well-formed pairs give N stubs and N chunk
\* records, the k-th of them for the k-th pair
PairsCounted ==
  Scanned /\ WellFormed(call.content) =>
    LET n == Count(call.content, CM_START)
    IN  /\ Len(call.chunks) = n
        /\ Len(StubIdsIn(call.out)) = n
        /\ \A k \in 1..n :
             /\ call.chunks[k].original =
                  Trim(SubSeq(call.content, Nth(call.content, CM_START, k) + 1,
                              Nth(call.content, CM_END, k) - 1))
             /\ call.chunks[k].chunkId = StubIdsIn(call.out)[k]

\* C12: a file with N well-formed marker pairs yields N fragments, N stubs and
\* N chunk records, one per pair in input order, and the N chunk ids are
\* pairwise distinct.
C12_OneChunkPerPair ==
  /\ PairsCounted
  /\ Scanned /\ WellFormed(call.content) =>
       \A j, k \in DOMAIN call.chunks :
         j # k => call.chunks[j].chunkId # call.chunks[k].chunkId

\* the last n lexemes of a text
Suffix(text, n) == SubSeq(text, Len(text) - n + 1, Len(text))

\* C13: when the scanner reaches a start marker with no end marker after it,
\* the output ends with the input from that start marker on, unchanged, no
\* chunk is made for it, and the pairs matched before it are replaced by stubs.
C13_UnmatchedStartKept ==
  Scanned =>
    LET expected == Collapse(call.content, {CM_START}, {CM_END})
        dangling == First(expected, {CM_START}, 1)
        rest == Len(expected) - dangling + 1
    IN  dangling # 0 =>
          /\ Len(call.out) >= rest
          /\ Suffix(call.out, rest) = Suffix(call.content, rest)
          /\ Suffix(call.out, rest)[1] = CM_START
          /\ Len(call.chunks) = Count(expected, "<stub>")
          /\ Count(SubSeq(call.out, 1, Len(call.out) - rest), "/* CODEMASKED:")
               = Count(expected, "<stub>")

\* a marked declaration, text, and a start marker that is never closed
C13_Witness ==
  /\ Scanned
  /\ call.content = Marked(JsDecl) \o <<"x", ";">> \o <<CM_START>> \o <<"x", ";">>
  /\ Len(call.chunks) = 1
  /\ call.out[1] = "/* CODEMASKED:"
  /\ Suffix(call.out, 5) = <<"x", ";", CM_START, "x", ";">>

Analyzed == call.fn = "analyze" /\ call.done

\* the trimmed snippet matches the pattern
Matches(snippet, pattern) == Match(Trim(snippet), pattern).ok

\* C17: the first pattern that matches decides, in the order function
\* declaration, arrow assignment, generic assignment: a snippet that matches
\* the declaration pattern is a "decl"; one that matches the arrow pattern
\* (and with it the generic pattern) is an "arrow", never a "constant"; one that
\* matches the generic pattern alone is a "constant"; one that matches none is
\* "unknown" with no name and empty params and body; original is always the
\* trimmed snippet.
C17_FirstMatchWins ==
  Analyzed =>
    LET decl == Matches(call.snippet, DeclPattern)
        arrow == Matches(call.snippet, ArrowPattern)
        constant == Matches(call.snippet, ConstantPattern)
    IN  /\ call.info.kind \in {"decl", "arrow", "constant", "unknown"}
        /\ decl => call.info.kind = "decl"
        /\ arrow => constant /\ call.info.kind = "arrow"
        /\ constant /\ ~arrow /\ ~decl => call.info.kind = "constant"
        /\ ~decl /\ ~arrow /\ ~constant =>
             /\ call.info.kind = "unknown"
             /\ call.info.name = Null
             /\ call.info.params = <<>>
             /\ call.info.body = <<>>
        /\ call.info.original = Trim(call.snippet)

\* a padded arrow assignment, which the generic pattern matches too
C17_Witness ==
  /\ Analyzed
  /\ call.snippet = <<" ", "\n", "const", " ", "foo", " ", "=", " ", "(", "x", ")", " ", "=>",
                      " ", "{", " ", "return", " ", "x", ";", " ", "}", " ", "\n">>
  /\ Matches(call.snippet, ArrowPattern) /\ Matches(call.snippet, ConstantPattern)
  /\ call.info.kind = "arrow"
  /\ call.info.name = <<"foo">>
  /\ call.info.params = <<"x">>
  /\ call.info.body = <<"return", " ", "x", ";">>
  /\ Len(call.info.original) = 20

(***************************************************************************)
(* The page: calls of init and load, and the answers of the network        *)
(***************************************************************************)
SdkInit ==
  /\ page.inits < MaxInits
  /\ \E opts \in InitOpts : page' = init(page, opts)
  /\ UNCHANGED <<store, http, ret, call>>

SdkLoad ==
  /\ Len(page.loads) < MaxLoads
  /\ \E chunkId \in ChunkIds : page' = load(page, chunkId)
  /\ UNCHANGED <<store, http, ret, call>>

\* the fetch of load i is answered
FetchAnswered ==
  \E i \in DOMAIN page.loads :
    /\ page.loads[i].pc = "fetch"
    /\ \E f \in DOMAIN page.fetches :
         /\ page.fetches[f].load = i
         /\ page' = loadImplResponse(page, i, Respond(page.fetches[f].url))
    /\ UNCHANGED <<store, http, ret, call>>

\* the fetch of load i fails (no response): await fetch(url) throws
FetchFailed ==
  \E i \in DOMAIN page.loads :
    /\ page.loads[i].pc = "fetch"
    /\ page' = Settle(page, i, "rejected", [error |-> <<"Failed to fetch">>])
    /\ UNCHANGED <<store, http, ret, call>>

\* r.json() of load i is done
JsonParsed ==
  \E i \in DOMAIN page.loads :
    /\ page.loads[i].pc = "json"
    /\ page' = loadImplData(page, i, page.loads[i].data)
    /\ UNCHANGED <<store, http, ret, call>>

LoaderNext == SdkInit \/ SdkLoad \/ FetchAnswered \/ FetchFailed \/ JsonParsed

LoaderSpec == Init /\ [][LoaderNext]_vars

(***************************************************************************)
(* Properties of the loader                                                *)
(***************************************************************************)
\* the fetches issued for load i
FetchesOf(pg, i) == {f \in DOMAIN pg.fetches : pg.fetches[f].load = i}

\* this step is a call of load
LoadCalled == Len(page'.loads) = Len(page.loads) + 1

\* this step has issued a fetch for the load just called
FetchIssued ==
  /\ page'.loads[Len(page'.loads)].pc = "fetch"
  /\ Len(page'.fetches) = Len(page.fetches) + 1
  /\ page'.fetches[Len(page'.fetches)].load = Len(page'.loads)

IsSettled(ld) == ld.pc \in {"resolved", "rejected"}

\* C5: while the loader is uninitialized (init has not been called) load only
\* queues: no fetch is issued and no promise is settled; once initialized, a
\* load is not queued: it fetches or returns the cached function at once.
C5_LoadQueuedUntilInit ==
  /\ [](page.initialized <=> page.inits > 0)
  /\ [](~page.initialized =>
          /\ page.fetches = <<>>
          /\ page.settled = <<>>
          /\ page.waiters = [i \in 1..Len(page.loads) |-> i]
          /\ \A i \in DOMAIN page.loads : page.loads[i].pc = "queued")
  /\ [][page.initialized /\ LoadCalled =>
          /\ page'.waiters = page.waiters
          /\ \/ FetchIssued
             \/ /\ page'.loads[Len(page'.loads)].pc = "resolved"
                /\ page'.fetches = page.fetches]_vars

\* two loads were queued and then flushed by init, a third was made after it
C5_Witness ==
  /\ page.initialized
  /\ Len(page.loads) = 3
  /\ page.loads[1].queued /\ page.loads[2].queued /\ ~page.loads[3].queued
  /\ page.loads[3].pc = "fetch"
  /\ FetchesOf(page, 1) # {} /\ FetchesOf(page, 2) # {}

\* the place of load i in the order of settlement
RECURSIVE Place(_, _)
Place(settled, i) == IF Head(settled) = i THEN 1 ELSE 1 + Place(Tail(settled), i)

\* C6: loads queued before init settle in the order they were issued, whatever
\* order the network answers in, and none settles before the readiness event.
C6_QueuedSettleInIssueOrder ==
  /\ \A a, b \in DOMAIN page.loads :
       page.loads[a].queued /\ page.loads[b].queued /\ a < b /\ IsSettled(page.loads[b]) =>
         /\ IsSettled(page.loads[a])
         /\ Place(page.settled, a) < Place(page.settled, b)
  /\ \A a \in DOMAIN page.loads :
       page.loads[a].queued /\ IsSettled(page.loads[a]) => page.readyEvents > 0

\* C7: when the fetch of a request queued before init is issued, the readiness
\* handle is resolved, the readiness event has been dispatched and the state
\* is published on window.CodeMask.
C7_SignalsBeforeFlush ==
  \A f \in DOMAIN page.fetches :
    page.loads[page.fetches[f].load].queued =>
      /\ page.fetches[f].readyResolved
      /\ page.fetches[f].readyEvents > 0
      /\ page.fetches[f].published

\* load i has resolved with a payload of this kind
ResolvedWith(ld, function) ==
  /\ ld.pc = "resolved"
  /\ ld.data # Undefined
  /\ (ld.data.kind = "function") = function

\* C8: a load that resolved with a "function" payload leaves the function in
\* the cache for good, and every later load of that chunk id returns it without
\* a fetch (one fetch for the two); a load that resolved with another payload
\* made its own fetch and cached nothing, so a later load of that chunk id
\* fetches again.
C8_CacheAsymmetry ==
  /\ [](\A i \in DOMAIN page.loads :
          /\ ResolvedWith(page.loads[i], TRUE) =>
               /\ page.loads[i].chunkId \in DOMAIN page.state.cache
               /\ Cardinality(FetchesOf(page, i)) = 1
          /\ ResolvedWith(page.loads[i], FALSE) =>
               /\ page.loads[i].chunkId \notin DOMAIN page.state.cache
               /\ Cardinality(FetchesOf(page, i)) = 1
          /\ page.loads[i].pc = "resolved" /\ page.loads[i].data = Undefined =>
               FetchesOf(page, i) = {})
  /\ [][LoadCalled =>
          \A i \in DOMAIN page.loads :
            page.loads[i].chunkId = page'.loads[Len(page'.loads)].chunkId =>
              /\ ResolvedWith(page.loads[i], TRUE) =>
                   /\ page'.fetches = page.fetches
                   /\ page'.loads[Len(page'.loads)].pc = "resolved"
                   /\ page'.loads[Len(page'.loads)].value = page.state.cache[page.loads[i].chunkId]
                   /\ page'.state.cache = page.state.cache
              /\ ResolvedWith(page.loads[i], FALSE) => FetchIssued]_vars

\* chunk_a was loaded twice in sequence with one fetch for the two, and
\* chunk_b, served raw, was fetched and is not in the cache
C8_Witness ==
  /\ Len(page.loads) = 3
  /\ page.loads[1].chunkId = "chunk_a" /\ page.loads[2].chunkId = "chunk_a"
  /\ page.loads[3].chunkId = "chunk_b"
  /\ \A i \in 1..3 : page.loads[i].pc = "resolved"
  /\ page.settled = <<1, 2, 3>>
  /\ page.loads[2].value = page.loads[1].value
  /\ FetchesOf(page, 2) = {}
  /\ Len(page.fetches) = 2
  /\ DOMAIN page.state.cache = {"chunk_a"}

\* load i has received a non-success response
Failed(ld) == ld.status # 0 /\ ~(ld.status \in 200..299)

\* C9, the part that holds as written: a load whose fetch got a non-success
\* response is rejected with an error naming its chunk id, has issued that one
\* fetch only, and has added nothing to the cache.
C9_Rejection ==
  /\ [](\A i \in DOMAIN page.loads :
          Failed(page.loads[i]) =>
            /\ page.loads[i].pc = "rejected"
            /\ page.loads[i].value =
                 [error |-> <<"Failed to load chunk ", page.loads[i].chunkId>>]
            /\ Cardinality(FetchesOf(page, i)) = 1)
  /\ [][\A i \in DOMAIN page.loads :
          ~Failed(page.loads[i]) /\ Failed(page'.loads[i]) =>
            page'.state.cache = page.state.cache]_vars

\* C9, amended: after such a failure a later load of the chunk id issues a
\* fresh fetch unless a function for it has been cached in the meantime.
C9_FailedLoadNotCached ==
  /\ C9_Rejection
  /\ [][LoadCalled /\ page.initialized =>
          \A i \in DOMAIN page.loads :
            /\ page.loads[i].chunkId = page'.loads[Len(page'.loads)].chunkId
            /\ Failed(page.loads[i])
            /\ page.loads[i].chunkId \notin DOMAIN page.state.cache
            => FetchIssued]_vars

\* a load was refused with 403, and the next load of the same chunk id fetched
C9_Witness ==
  /\ Len(page.loads) >= 2
  /\ page.loads[1].chunkId = page.loads[2].chunkId
  /\ page.loads[1].status = 403
  /\ page.loads[1].pc = "rejected"
  /\ page.settled = <<1>>
  /\ page.loads[2].pc = "fetch"
  /\ Len(page.fetches) = 2
  /\ page.state.cache = EmptyMap

\* C9 as written: after such a failure every later load of the chunk id
\* issues a fresh fetch.
C9_LaterLoadFetches ==
  /\ C9_Rejection
  /\ [][LoadCalled /\ page.initialized =>
          \A i \in DOMAIN page.loads :
            /\ page.loads[i].chunkId = page'.loads[Len(page'.loads)].chunkId
            /\ Failed(page.loads[i])
            => FetchIssued]_vars

\* this step is a call of init
InitCalled == page'.inits = page.inits + 1

\* C14: the queue holds the requests in the order they were made, and one call
\* of init starts every queued request, in that order, and leaves the queue
\* empty; a queued request that fails later has not kept the ones queued after
\* it from being started.
C14_FlushInsideInitFifo ==
  /\ [](\A j, k \in DOMAIN page.waiters : j < k => page.waiters[j] < page.waiters[k])
  /\ [](page.initialized =>
          \A i \in DOMAIN page.loads :
            page.loads[i].queued => page.loads[i].pc # "queued" /\ FetchesOf(page, i) # {})
  /\ [][InitCalled =>
          /\ page'.waiters = <<>>
          /\ Len(page'.fetches) = Len(page.fetches) + Len(page.waiters)
          /\ \A k \in DOMAIN page.waiters :
               /\ page'.fetches[Len(page.fetches) + k].load = page.waiters[k]
               /\ page'.loads[page.waiters[k]].pc = "fetch"]_vars

\* three queued requests were started in order by init; the first has failed
\* and the two after it are under way
C14_Witness ==
  /\ page.inits = 1
  /\ Len(page.loads) = 3
  /\ \A i \in 1..3 : page.loads[i].queued
  /\ page.waiters = <<>>
  /\ [f \in DOMAIN page.fetches |-> page.fetches[f].load] = <<1, 2, 3>>
  /\ page.loads[1].pc = "rejected"
  /\ page.loads[2].pc = "json"
  /\ page.loads[3].pc = "fetch"


\* load i waits for the answer of its fetch
InFlight(ld) == ld.pc = "fetch"

\* C15: requests in flight are not shared: a load of a chunk id that is not in
\* the cache issues a fetch of its own, also when a fetch for the same id is in
\* flight, and init issues one fetch for each queued request, also when two of
\* them name the same id; no fetch serves two loads.
C15_NoInFlightDedup ==
  /\ [](\A f, g \in DOMAIN page.fetches :
          f # g => page.fetches[f].load # page.fetches[g].load)
  /\ [](\A i \in DOMAIN page.loads :
          InFlight(page.loads[i]) => Cardinality(FetchesOf(page, i)) = 1)
  /\ [][/\ LoadCalled /\ page.initialized
        /\ page'.loads[Len(page'.loads)].chunkId \notin DOMAIN page.state.cache
        => FetchIssued]_vars
  /\ [][InitCalled =>
          Len(page'.fetches) = Len(page.fetches) + Len(page.waiters)]_vars

\* two loads of chunk_a made after init, both fetches in flight for one url
C15_Witness ==
  /\ page.initialized
  /\ Len(page.loads) = 2
  /\ ~page.loads[1].queued /\ ~page.loads[2].queued
  /\ page.loads[1].chunkId = "chunk_a" /\ page.loads[2].chunkId = "chunk_a"
  /\ InFlight(page.loads[1]) /\ InFlight(page.loads[2])
  /\ Len(page.fetches) = 2
  /\ page.fetches[1].url = page.fetches[2].url

\* the loader's configuration
Config(pg) ==
  [baseUrl |-> pg.state.baseUrl, projectId |-> pg.state.projectId, key |-> pg.state.key]

\* C16: every call of init(opts) leaves the configuration equal to opts,
\* dispatches the readiness event once more and leaves the loader initialized;
\* nothing else changes the configuration, and a load that fetches builds its
\* url from the configuration of the latest init.
C16_InitOverwritesAndResignals ==
  /\ [](page.readyEvents = page.inits)
  /\ [](page.inits > 0 => page.initialized /\ Config(page) \in InitOpts)
  /\ [][\A opts \in InitOpts :
          page' = init(page, opts) =>
            /\ Config(page') = opts
            /\ page'.readyEvents = page.readyEvents + 1
            /\ page'.initialized]_vars
  /\ [][~InitCalled => Config(page') = Config(page)]_vars
  /\ [][LoadCalled /\ page.initialized /\ Len(page'.fetches) # Len(page.fetches) =>
          page'.fetches[Len(page'.fetches)].url =
            <<page.state.baseUrl, "/api/fetch/", page.state.projectId, "/",
              page'.loads[Len(page'.loads)].chunkId, "?key=",
              IF page.state.key = "k&1" THEN "k%261" ELSE page.state.key>>]_vars

\* init with key k1, a load, init with key k&1, a load: the second fetch
\* carries the second key, and the event was dispatched twice
C16_Witness ==
  /\ page.inits = 2
  /\ page.readyEvents = 2
  /\ page.state.key = "k&1"
  /\ Len(page.fetches) = 2
  /\ page.fetches[1].url[7] = "k1"
  /\ page.fetches[2].url[7] = "k%261"
  /\ page.fetches[1].readyEvents = 1 /\ page.fetches[2].readyEvents = 2

\* the url load i fetched from
UrlOf(pg, i) == pg.fetches[CHOOSE f \in FetchesOf(pg, i) : TRUE].url

\* C18: the cache is keyed by chunk id alone and no step removes an entry: a
\* load of a chunk id made after init has changed the configuration returns
\* the function that a load under the earlier configuration cached, with no
\* fetch.
C18_CacheSurvivesInit ==
  /\ [][\A c \in DOMAIN page.state.cache :
          /\ c \in DOMAIN page'.state.cache
          /\ InitCalled => page'.state.cache[c] = page.state.cache[c]]_vars
  /\ [][LoadCalled =>
          \A i \in DOMAIN page.loads :
            /\ page.loads[i].chunkId = page'.loads[Len(page'.loads)].chunkId
            /\ ResolvedWith(page.loads[i], TRUE)
            /\ UrlOf(page, i) # Url(page.state, page.loads[i].chunkId)
            => /\ page'.fetches = page.fetches
               /\ page'.loads[Len(page'.loads)].pc = "resolved"
               /\ page'.loads[Len(page'.loads)].value = page.loads[i].value]_vars

\* chunk_a loaded under key k1, then init with key k&1, then chunk_a loaded
\* again: resolved with the same function, one fetch in all
C18_Witness ==
  /\ page.inits = 2
  /\ page.state.key = "k&1"
  /\ Len(page.loads) = 2
  /\ page.loads[1].chunkId = "chunk_a" /\ page.loads[2].chunkId = "chunk_a"
  /\ ResolvedWith(page.loads[1], TRUE)
  /\ page.loads[2].pc = "resolved"
  /\ page.loads[2].value = page.loads[1].value
  /\ Len(page.fetches) = 1
  /\ page.fetches[1].url[7] = "k1"
  /\ page.fetches[1].readyEvents = 1

\* C19: once init has been called the loader stays initialized; between the
\* loader's operations an initialized loader has an empty queue; a load made
\* while initialized adds nothing to the queue.
C19_InitializedQueueEmpty ==
  /\ [](page.inits > 0 => page.initialized)
  /\ [](page.initialized => page.waiters = <<>>)
  /\ [][page.initialized => page'.initialized]_vars
  /\ [][page.initialized /\ LoadCalled =>
          /\ page'.waiters = <<>>
          /\ ~page'.loads[Len(page'.loads)].queued
          /\ page'.loads[Len(page'.loads)].pc # "queued"]_vars

\* a load queued before init, two calls of init, a load after them
C19_Witness ==
  /\ page.initialized
  /\ page.inits = 2
  /\ page.waiters = <<>>
  /\ Len(page.loads) = 2
  /\ page.loads[1].queued /\ page.loads[1].pc # "queued"
  /\ ~page.loads[2].queued
  /\ page.fetches[2].readyEvents = 2

\* the loader when init is called at some time and every fetch is answered
\* (or fails) and every body is read at some time
LoaderLiveSpec ==
  /\ LoaderSpec
  /\ WF_vars(SdkInit /\ page.inits = 0)
  /\ WF_vars(FetchAnswered \/ FetchFailed)
  /\ WF_vars(JsonParsed)

\* load i has been called
Called(i) == i <= Len(page.loads)

\* C20: a load is settled at most once and a settled load does not change;
\* a queued load changes only in a call of init and a load in flight only when
\* its fetch is answered or fails (there is no timeout); if init is called and
\* every fetch is answered, every load is settled in the end.
C20_SettledOnceEventually ==
  /\ [](\A j, k \in DOMAIN page.settled : j # k => page.settled[j] # page.settled[k])
  /\ [](\A i \in DOMAIN page.loads :
          IsSettled(page.loads[i]) <=> \E j \in DOMAIN page.settled : page.settled[j] = i)
  /\ [][\A i \in DOMAIN page.loads :
          /\ IsSettled(page.loads[i]) => page'.loads[i] = page.loads[i]
          /\ page.loads[i].pc = "queued" /\ page'.loads[i] # page.loads[i] => InitCalled
          /\ InFlight(page.loads[i]) /\ page'.loads[i] # page.loads[i] =>
               \/ page' = loadImplResponse(page, i, Respond(UrlOf(page, i)))
               \/ page' = Settle(page, i, "rejected", [error |-> <<"Failed to fetch">>])]_vars
  /\ \A i \in 1..MaxLoads : Called(i) ~> (Called(i) /\ IsSettled(page.loads[i]))

\* a load queued before init and two made after it, all settled, each once
C20_Witness ==
  /\ Len(page.loads) = 3
  /\ page.loads[1].queued /\ ~page.loads[2].queued /\ ~page.loads[3].queued
  /\ \A i \in 1..3 : IsSettled(page.loads[i])
  /\ page.loads[2].pc = "rejected" /\ page.loads[2].status = 0
  /\ Len(page.settled) = 3
  /\ page.settled[1] = 3

====
